---- MODULE Spec2Model ----
\* Fault-tolerance layer of the session3 pipelines:
\*   CheckpointManager   (sessions/session3/advanced/code/reliable_pipeline.py)
\*   retry_with_backoff  (sessions/session3/advanced/code/reliable_pipeline.py)
\*   CircuitBreaker      (sessions/session3/advanced/failure-handling/fail_retry_exhaustion.py)
\*   RobustLogger, LogRecovery (sessions/session3/advanced/failure-handling/fail_logging_failure.py)
\*   ReliablePipeline, PipelineLogger (sessions/session3/advanced/code/reliable_pipeline.py)
\*   main                (sessions/session3/code/idempotent_pipeline.py)
EXTENDS Integers, Sequences, FiniteSets, TLC

\* ---------------------------------------------------------------------------
\* Bounds of the model
\* ---------------------------------------------------------------------------
MaxCalls == 3          \* CheckpointManager calls explored per behaviour
MaxTime == 1           \* ticks of the wall clock read by datetime.utcnow()
MaxAttempts == 3       \* largest max_attempts given to retry_with_backoff
TicksPerUnit == 4      \* clock ticks per time unit of base_delay and of the jitter
MaxThreshold == 3      \* largest failure_threshold given to CircuitBreaker
MaxFailures == 4       \* cap on the failure counter of the CircuitBreaker
MaxClock == 4          \* ticks of the clock read by time.time()
MaxLogs == 2           \* calls of RobustLogger.log
MaxLines == 3          \* lines of the fallback file handed to LogRecovery
MaxRecoveries == 2     \* calls of LogRecovery.recover_file_logs
MaxSweeps == 2         \* executions of main of idempotent_pipeline.py

\* ---------------------------------------------------------------------------
\* Input domains
\* ---------------------------------------------------------------------------
None == "None"         \* Python None / SQL NULL of a text column
NoTime == -1           \* SQL NULL of a timestamp or integer column

PipelineName == "reliable_gold_pipeline"
Runs == {"run1", "run2"}
Stages == {"product_performance"}
Keys == {"start", "end"}
Values == {"v1", "v2"}
Statuses == {"completed", "failed"}
Metadatas == {"None", "duration_ms"}
DurationValue == 5000

\* what func returns, what it raises, and the error of a blocked call
Results == {"result_a", "result_b"}
Errors == {"OperationalError", "ConnectionError"}
CircuitOpen == "Circuit breaker is OPEN - calls blocked"

\* idempotent_pipeline.py: the years and months of the silver layer and the
\* values of --year and --month; NoArg is an option that was not given
SilverYears == {2010, 2011}
SilverMonths == {1, 12}
NoArg == 0
ArgYears == {NoArg, 2010}
ArgMonths == {NoArg, 12}

\* ReliablePipeline: its stages in the order run_pipeline calls them, its run
\* identity and the metadata of a completed stage
PipelineStages == <<"product_performance", "country_sales">>
PipelineStageSet == {PipelineStages[i] : i \in 1..Len(PipelineStages)}
PipelineRun == "run1"
RowsUpdated == "rows_updated"

\* RobustLogger: the order of its sinks, its identity and the arguments of log
SinkOrder == <<"database", "file", "critical">>
LoggerPipelineName == "robust-pipeline"
LoggerRunId == "robust-run-456"
Levels == {"INFO", "ERROR"}
Messages == {"Testing robust logger", "All systems failing"}
LogMetadatas == {"fallback_test"}

\* status and metadata as the callers pass them: completed with metadata,
\* failed without
SetArgs == {<<"completed", "duration_ms">>, <<"failed", "None">>}

VARIABLES
    pipeline_checkpoint,   \* rows of ops.pipeline_checkpoint
    next_id,               \* the SERIAL sequence behind the id column
    utcnow,                \* the clock read by datetime.utcnow()
    db_conn,               \* db_conn of the CheckpointManager of each run
    calls,                 \* number of CheckpointManager calls made so far
    last_call,             \* the most recent call and what it returned
    sets                   \* history: the values passed to set_checkpoint, per unit

VARIABLES
    max_attempts,          \* retry_with_backoff: the decorator's max_attempts
    base_delay,            \* retry_with_backoff: the decorator's base_delay, in ticks
    fail_first,            \* the wrapped function fails on its first fail_first invocations
    attempt,               \* wrapper: the loop variable
    invocations,           \* number of invocations of the wrapped function in this call
    last_exception,        \* wrapper: last_exception
    slept,                 \* the delays passed to time.sleep in this call
    retry_pc,              \* "idle", "loop", "returned" or "raised"
    retry_out              \* what the wrapper returned or raised

VARIABLES
    state,                 \* CircuitBreaker.state
    failure_count,         \* CircuitBreaker.failure_count
    last_failure_time,     \* CircuitBreaker.last_failure_time
    failure_threshold,     \* CircuitBreaker.failure_threshold
    timeout,               \* CircuitBreaker.timeout
    clock,                 \* the clock read by time.time()
    cb_pc,                 \* "idle", or "invoking" while func runs inside call
    cb_out,                \* how the last call ended
    consecutive,           \* history: failures of func since its last success
    entry_state,           \* history: CircuitBreaker.state when the current call began
    invoked,               \* history: invocations of func by the current call
    func_result,           \* what func returned or raised in the current call
    cb_result              \* what the last call returned or raised to its caller

ckVars == <<pipeline_checkpoint, next_id, utcnow, db_conn, calls, last_call, sets>>

retryVars == <<max_attempts, base_delay, fail_first, attempt, invocations,
               last_exception, slept, retry_pc, retry_out>>

cbVars == <<state, failure_count, last_failure_time, failure_threshold, timeout,
            clock, cb_pc, cb_out, consecutive, entry_state, invoked, func_result,
            cb_result>>

VARIABLES
    log_entry,             \* the log_entry dict of the current call of RobustLogger.log
    pipeline_logs,         \* rows of ops.pipeline_logs, in insertion order
    fallback_log,          \* lines of RobustLogger.file_log_path
    critical_log,          \* lines of RobustLogger.critical_log_path
    stderr,                \* lines printed to sys.stderr
    log_pc,                \* "idle", or the sink the current call tries next
    log_out,               \* how the last call of log ended
    log_calls,             \* calls of log so far
    attempted,             \* history: the sinks the current call has tried, in order
    written                \* history: the sinks the current call has written to, in order

logVars == <<log_entry, pipeline_logs, fallback_log, critical_log, stderr, log_pc,
             log_out, log_calls, attempted, written>>

VARIABLES
    rec_pc,                \* "idle", or "reading" inside the loop of recover_file_logs
    rec_line,              \* the line of the file the loop reads next
    recovered_count,       \* recovered_count of recover_file_logs
    rec_pending,           \* rows inserted on LogRecovery.conn and not yet committed
    rec_out,               \* how the last call of recover_file_logs ended
    rec_runs,              \* calls of recover_file_logs so far
    file_exists            \* file_path.exists()

recVars == <<rec_pc, rec_line, recovered_count, rec_pending, rec_out, rec_runs,
             file_exists>>

VARIABLES
    run_pc,                \* "idle", "running" inside run_pipeline, or "ended"
    stage_no,              \* the position in PipelineStages of the stage being run
    stage_attempt,         \* attempt of the retry wrapper around the current stage
    op_invocations,        \* history: executions of each stage's statement
    op_failures,           \* history: executions of each stage's statement that raised
    snapshot,              \* history: the rows of each stage when its function returned
    run_out                \* how run_pipeline ended

runVars == <<run_pc, stage_no, stage_attempt, op_invocations, op_failures, snapshot,
             run_out>>

VARIABLES
    silver_months,         \* the (year, month) pairs of silver.fact_sales_daily
    ops_processed_months,  \* rows of ops.processed_months
    args,                  \* the parsed command line of the current sweep
    processed_months,      \* main: the month keys get_processed_months returned
    all_months,            \* main: the months to consider, after the filter
    unprocessed_months,    \* main: the work list
    sweep_pc,              \* "idle", or the statement of the loop that is next
    todo,                  \* the position in unprocessed_months of the current month
    month_attempt,         \* attempt of the retry wrapper around process_month_gold
    month_invocations,     \* history: executions of process_month_gold per month
    rows_at_start,         \* history: ops.processed_months when the sweep read it
    sweeps,                \* executions of main so far
    sweep_out              \* how the last execution of main ended

sweepVars == <<silver_months, ops_processed_months, args, processed_months, all_months,
               unprocessed_months, sweep_pc, todo, month_attempt, month_invocations,
               rows_at_start, sweeps, sweep_out>>

VARIABLES
    tx_status,             \* transaction status of the connection: "idle" or "inerror"
    conn_pc,               \* the statement of run_pipeline that is next
    conn_stage,            \* the position in PipelineStages of the stage being run
    conn_attempt,          \* attempt of the retry wrapper around the current stage
    log_write_failed,      \* history: an INSERT of _log_to_db was rejected in this run
    business_call,         \* history: the last checkpoint or stage statement and its outcome
    conn_out               \* how run_pipeline ended

connVars == <<tx_status, conn_pc, conn_stage, conn_attempt, log_write_failed,
              business_call, conn_out>>

restVars == <<logVars, recVars, runVars, sweepVars, connVars>>

vars == <<ckVars, retryVars, cbVars, restVars>>

Units == Runs \X Stages \X Keys

\* ---------------------------------------------------------------------------
\* ops.pipeline_checkpoint
\* ---------------------------------------------------------------------------
\* A WHERE clause and conflict target without run_id.
Matching_IgnoresRun(table, run, stage, key) ==
    {r \in table : /\ r.pipeline_name = PipelineName
                   /\ r.stage = stage
                   /\ r.checkpoint_key = key}

\* The rows a statement of the manager of run `run` addresses:
\* WHERE pipeline_name = %s AND run_id = %s AND stage = %s AND checkpoint_key = %s,
\* which is also the conflict target of both INSERT statements.
Matching(table, run, stage, key) ==
    {r \in table : /\ r.pipeline_name = PipelineName
                   /\ r.run_id = run
                   /\ r.stage = stage
                   /\ r.checkpoint_key = key}

\* metadata.get("duration_ms", 0) if metadata else 0
DurationMs(metadata) ==
    IF metadata = "duration_ms" THEN DurationValue ELSE 0

\* json.dumps(metadata) if metadata else None
MetadataJson(metadata) ==
    IF metadata = "None" THEN None ELSE "{" \o metadata \o "}"

\* A plain INSERT: no conflict target, every call adds a row.
UpsertCheckpoint_PlainInsert(table, id, run, stage, key, value, status, metadata, current_time) ==
    table \cup
    {[id |-> id, pipeline_name |-> PipelineName, run_id |-> run, stage |-> stage,
      checkpoint_key |-> key, checkpoint_value |-> value, status |-> status,
      start_time |-> current_time, end_time |-> current_time,
      duration_ms |-> DurationMs(metadata), metadata |-> MetadataJson(metadata),
      updated_at |-> current_time]}

\* An upsert whose DO UPDATE list lacks checkpoint_value.
UpsertCheckpoint_KeepValue(table, id, run, stage, key, value, status, metadata, current_time) ==
    LET hit == Matching(table, run, stage, key)
    IN  IF hit = {}
        THEN UpsertCheckpoint_PlainInsert(table, id, run, stage, key, value, status,
                                          metadata, current_time)
        ELSE (table \ hit) \cup
             {[r EXCEPT !.status = status,
                        !.end_time = current_time,
                        !.duration_ms = DurationMs(metadata),
                        !.metadata = MetadataJson(metadata),
                        !.updated_at = current_time] : r \in hit}

\* An upsert whose DO UPDATE list also names start_time.
UpsertCheckpoint_ResetStart(table, id, run, stage, key, value, status, metadata, current_time) ==
    LET hit == Matching(table, run, stage, key)
    IN  IF hit = {}
        THEN UpsertCheckpoint_PlainInsert(table, id, run, stage, key, value, status,
                                          metadata, current_time)
        ELSE (table \ hit) \cup
             {[r EXCEPT !.checkpoint_value = value,
                        !.status = status,
                        !.start_time = current_time,
                        !.end_time = current_time,
                        !.duration_ms = DurationMs(metadata),
                        !.metadata = MetadataJson(metadata),
                        !.updated_at = current_time] : r \in hit}

\* INSERT ... ON CONFLICT (pipeline_name, run_id, stage, checkpoint_key) DO UPDATE SET ...
UpsertCheckpoint(table, id, run, stage, key, value, status, metadata, current_time) ==
    LET hit == Matching(table, run, stage, key)
        new == [id |-> id,
                pipeline_name |-> PipelineName,
                run_id |-> run,
                stage |-> stage,
                checkpoint_key |-> key,
                checkpoint_value |-> value,
                status |-> status,
                start_time |-> current_time,
                end_time |-> current_time,
                duration_ms |-> DurationMs(metadata),
                metadata |-> MetadataJson(metadata),
                updated_at |-> current_time]
    IN  IF hit = {}
        THEN table \cup {new}
        ELSE (table \ hit) \cup
             {[r EXCEPT !.checkpoint_value = new.checkpoint_value,
                        !.status = new.status,
                        !.end_time = new.end_time,
                        !.duration_ms = new.duration_ms,
                        !.metadata = new.metadata,
                        !.updated_at = new.updated_at] : r \in hit}

\* An insert that, on conflict, restarts the unit instead of leaving it alone.
InsertInProgress_Restart(table, id, run, stage, key, current_time) ==
    LET hit == Matching(table, run, stage, key)
    IN  IF hit = {}
        THEN table \cup
             {[id |-> id, pipeline_name |-> PipelineName, run_id |-> run, stage |-> stage,
               checkpoint_key |-> key, checkpoint_value |-> None, status |-> "in_progress",
               start_time |-> current_time, end_time |-> NoTime, duration_ms |-> NoTime,
               metadata |-> "{}", updated_at |-> current_time]}
        ELSE (table \ hit) \cup
             {[r EXCEPT !.status = "in_progress", !.start_time = current_time] : r \in hit}

\* INSERT ... VALUES (..., 'in_progress', start_time) ON CONFLICT (...) DO NOTHING;
\* the columns the statement does not name take their column defaults.
InsertInProgress(table, id, run, stage, key, current_time) ==
    LET hit == Matching(table, run, stage, key)
        new == [id |-> id,
                pipeline_name |-> PipelineName,
                run_id |-> run,
                stage |-> stage,
                checkpoint_key |-> key,
                checkpoint_value |-> None,
                status |-> "in_progress",
                start_time |-> current_time,
                end_time |-> NoTime,
                duration_ms |-> NoTime,
                metadata |-> "{}",
                updated_at |-> current_time]
    IN  IF hit = {} THEN table \cup {new} ELSE table

\* The serial sequence advances for every INSERT attempted, conflict or not.
NextVal(id) == id + 1

CkInit ==
    /\ pipeline_checkpoint = {}
    /\ next_id = 1
    /\ utcnow = 0
    /\ db_conn = [run \in Runs |-> "connection"]
    /\ calls = 0
    /\ last_call = [op |-> "none", run |-> None, stage |-> None,
                    key |-> None, ret |-> None]
    /\ sets = [u \in Units |-> << >>]

\* CheckpointManager.__init__ with any db_conn a caller may pass: a connection, or
\* None for a manager without one
CkInitAnyConnection ==
    /\ pipeline_checkpoint = {}
    /\ next_id = 1
    /\ utcnow = 0
    /\ db_conn \in [Runs -> {"connection", None}]
    /\ calls = 0
    /\ last_call = [op |-> "none", run |-> None, stage |-> None,
                    key |-> None, ret |-> None]
    /\ sets = [u \in Units |-> << >>]

\* A "get or create" read: a miss leaves a pending row behind.
get_checkpoint_OrCreate(run, stage, key) ==
    /\ calls < MaxCalls
    /\ calls' = calls + 1
    /\ LET hit == Matching(pipeline_checkpoint, run, stage, key)
       IN  IF hit = {}
           THEN /\ last_call' = [op |-> "get_checkpoint", run |-> run, stage |-> stage,
                                 key |-> key, ret |-> None]
                /\ pipeline_checkpoint' = pipeline_checkpoint \cup
                      {[id |-> next_id, pipeline_name |-> PipelineName, run_id |-> run,
                        stage |-> stage, checkpoint_key |-> key, checkpoint_value |-> None,
                        status |-> "pending", start_time |-> NoTime, end_time |-> NoTime,
                        duration_ms |-> NoTime, metadata |-> "{}", updated_at |-> utcnow]}
           ELSE /\ \E r \in hit :
                    last_call' = [op |-> "get_checkpoint", run |-> run, stage |-> stage,
                                  key |-> key, ret |-> r.checkpoint_value]
                /\ UNCHANGED pipeline_checkpoint
    /\ UNCHANGED <<next_id, utcnow, db_conn, sets, retryVars, cbVars, restVars>>

\* CheckpointManager.get_checkpoint
get_checkpoint(run, stage, key) ==
    /\ calls < MaxCalls
    /\ calls' = calls + 1
    /\ LET hit == Matching(pipeline_checkpoint, run, stage, key)
       IN  IF db_conn[run] = "None" \/ hit = {}
           THEN last_call' = [op |-> "get_checkpoint", run |-> run, stage |-> stage,
                              key |-> key, ret |-> None]
           ELSE \E r \in hit :
                    last_call' = [op |-> "get_checkpoint", run |-> run, stage |-> stage,
                                  key |-> key, ret |-> r.checkpoint_value]
    /\ UNCHANGED <<pipeline_checkpoint, next_id, utcnow, db_conn, sets, retryVars, cbVars, restVars>>

\* CheckpointManager.set_checkpoint
set_checkpoint(run, stage, key, value, status, metadata) ==
    /\ calls < MaxCalls
    /\ calls' = calls + 1
    /\ IF db_conn[run] = "None"
       THEN UNCHANGED <<pipeline_checkpoint, next_id>>
       ELSE /\ pipeline_checkpoint' =
                   UpsertCheckpoint(pipeline_checkpoint, next_id, run, stage, key,
                                    value, status, metadata, utcnow)
            /\ next_id' = NextVal(next_id)
    /\ last_call' = [op |-> "set_checkpoint", run |-> run, stage |-> stage,
                     key |-> key, ret |-> None]
    /\ sets' = [sets EXCEPT ![<<run, stage, key>>] = Append(@, value)]
    /\ UNCHANGED <<utcnow, db_conn, retryVars, cbVars, restVars>>

\* CheckpointManager.start_stage
start_stage(run, stage, key) ==
    /\ calls < MaxCalls
    /\ calls' = calls + 1
    /\ IF db_conn[run] = "None"
       THEN UNCHANGED <<pipeline_checkpoint, next_id>>
       ELSE /\ pipeline_checkpoint' =
                   InsertInProgress(pipeline_checkpoint, next_id, run, stage, key, utcnow)
            /\ next_id' = NextVal(next_id)
    /\ last_call' = [op |-> "start_stage", run |-> run, stage |-> stage,
                     key |-> key, ret |-> None]
    /\ UNCHANGED <<utcnow, db_conn, sets, retryVars, cbVars, restVars>>

\* The wall clock moves between calls.
Tick ==
    /\ utcnow < MaxTime
    /\ calls < MaxCalls
    /\ utcnow' = utcnow + 1
    /\ UNCHANGED <<pipeline_checkpoint, next_id, db_conn, calls, last_call, sets, retryVars, cbVars, restVars>>

CkGet == \E run \in Runs, stage \in Stages, key \in Keys : get_checkpoint(run, stage, key)

CkSet ==
    \E run \in Runs, stage \in Stages, key \in Keys, value \in Values, how \in SetArgs :
        set_checkpoint(run, stage, key, value, how[1], how[2])

CkStart == \E run \in Runs, stage \in Stages, key \in Keys : start_stage(run, stage, key)

CkNext == CkGet \/ CkSet \/ CkStart \/ Tick

\* ---------------------------------------------------------------------------
\* retry_with_backoff
\* ---------------------------------------------------------------------------
RECURSIVE Pow2(_)
Pow2(n) == IF n = 0 THEN 1 ELSE 2 * Pow2(n - 1)

\* base_delay values, in ticks: a quarter, a half and one whole time unit
BaseDelays == {1, TicksPerUnit \div 2, TicksPerUnit}

\* random.random() is in [0, 1): in ticks, 0 .. TicksPerUnit - 1
Jitters == {0, TicksPerUnit \div 2, TicksPerUnit - 1}

NoException == 0

\* The wrapped function: its j-th invocation in a call raises its own exception
\* while j <= fail_first and returns its own result otherwise.
FuncFails(j) == j <= fail_first

Raised(j) == [kind |-> "raise", of |-> j]

Returned(j) == [kind |-> "return", of |-> j]

NoOutcome == [kind |-> "none", of |-> 0]

\* A delay that does not grow with the attempt.
Delay_NoBackoff(base, i, jitter) == base + jitter

\* delay = base_delay * (2**attempt) + random.random()
Delay(base, i, jitter) == base * Pow2(i) + jitter

RetryInit ==
    /\ max_attempts \in 1..MaxAttempts
    /\ base_delay \in BaseDelays
    /\ fail_first = 0
    /\ attempt = 0
    /\ invocations = 0
    /\ last_exception = NoException
    /\ slept = << >>
    /\ retry_pc = "idle"
    /\ retry_out = NoOutcome

\* The decorator as the pipeline applies it: max_attempts=3, base_delay=1.0
RetryParked ==
    /\ RetryInit
    /\ max_attempts = 3
    /\ base_delay = TicksPerUnit

\* wrapper is entered: last_exception = None, the loop starts at attempt 0
RetryCall ==
    /\ retry_pc # "loop"
    /\ \E k \in 0..MaxAttempts : fail_first' = k
    /\ attempt' = 0
    /\ invocations' = 0
    /\ last_exception' = NoException
    /\ slept' = << >>
    /\ retry_pc' = "loop"
    /\ retry_out' = NoOutcome
    /\ UNCHANGED <<max_attempts, base_delay, ckVars, cbVars, restVars>>

\* one iteration of the loop in which func returns: return func(*args, **kwargs)
RetryAttemptReturns ==
    /\ retry_pc = "loop"
    /\ ~FuncFails(invocations + 1)
    /\ invocations' = invocations + 1
    /\ retry_pc' = "returned"
    /\ retry_out' = Returned(invocations + 1)
    /\ UNCHANGED <<max_attempts, base_delay, fail_first, attempt, last_exception,
                   slept, ckVars, cbVars, restVars>>

\* A loop that gives up one iteration early.
RetryAttemptRaises_GivesUpEarly ==
    /\ retry_pc = "loop"
    /\ FuncFails(invocations + 1)
    /\ invocations' = invocations + 1
    /\ last_exception' = invocations + 1
    /\ IF attempt < max_attempts - 2
       THEN /\ \E jitter \in Jitters :
                  slept' = Append(slept, Delay(base_delay, attempt, jitter))
            /\ attempt' = attempt + 1
            /\ UNCHANGED <<retry_pc, retry_out>>
       ELSE /\ retry_pc' = "raised"
            /\ retry_out' = Raised(last_exception')
            /\ UNCHANGED <<slept, attempt>>
    /\ UNCHANGED <<max_attempts, base_delay, fail_first, ckVars, cbVars, restVars>>

\* A wrapper that remembers the first exception instead of the last.
RetryAttemptRaises_FirstException ==
    /\ retry_pc = "loop"
    /\ FuncFails(invocations + 1)
    /\ invocations' = invocations + 1
    /\ last_exception' = IF last_exception = NoException
                         THEN invocations + 1
                         ELSE last_exception
    /\ IF attempt < max_attempts - 1
       THEN /\ \E jitter \in Jitters :
                  slept' = Append(slept, Delay(base_delay, attempt, jitter))
            /\ attempt' = attempt + 1
            /\ UNCHANGED <<retry_pc, retry_out>>
       ELSE /\ retry_pc' = "raised"
            /\ retry_out' = Raised(last_exception')
            /\ UNCHANGED <<slept, attempt>>
    /\ UNCHANGED <<max_attempts, base_delay, fail_first, ckVars, cbVars, restVars>>

\* one iteration of the loop in which func raises: the except branch, and the
\* raise after the loop when this was the last iteration
RetryAttemptRaises ==
    /\ retry_pc = "loop"
    /\ FuncFails(invocations + 1)
    /\ invocations' = invocations + 1
    /\ last_exception' = invocations + 1
    /\ IF attempt < max_attempts - 1
       THEN /\ \E jitter \in Jitters :
                  slept' = Append(slept, Delay(base_delay, attempt, jitter))
            /\ attempt' = attempt + 1
            /\ UNCHANGED <<retry_pc, retry_out>>
       ELSE /\ retry_pc' = "raised"
            /\ retry_out' = Raised(last_exception')
            /\ UNCHANGED <<slept, attempt>>
    /\ UNCHANGED <<max_attempts, base_delay, fail_first, ckVars, cbVars, restVars>>

RetryNext == RetryCall \/ RetryAttemptReturns \/ RetryAttemptRaises

\* ---------------------------------------------------------------------------
\* CircuitBreaker
\* ---------------------------------------------------------------------------
\* CircuitBreaker.__init__
BreakerInit ==
    /\ failure_threshold \in 1..MaxThreshold
    /\ timeout = 1
    /\ failure_count = 0
    /\ last_failure_time = NoTime
    /\ state = "CLOSED"
    /\ clock = 0
    /\ cb_pc = "idle"
    /\ cb_out = "none"
    /\ consecutive = 0
    /\ entry_state = "none"
    /\ invoked = 0
    /\ func_result = None
    /\ cb_result = None

\* The breaker of the demonstration: CircuitBreaker(failure_threshold=2, ...)
BreakerParked ==
    /\ BreakerInit
    /\ failure_threshold = 2

\* A breaker whose cooldown test is >= : it probes one tick early.
BreakerCall_CooldownInclusive ==
    /\ cb_pc = "idle"
    /\ entry_state' = state
    /\ func_result' = None
    /\ IF state = "OPEN"
       THEN IF clock - last_failure_time >= timeout
            THEN /\ state' = "HALF_OPEN"
                 /\ cb_pc' = "invoking"
                 /\ invoked' = 1
                 /\ cb_result' = None
                 /\ UNCHANGED cb_out
            ELSE /\ cb_out' = "blocked"
                 /\ cb_result' = CircuitOpen
                 /\ invoked' = 0
                 /\ UNCHANGED <<state, cb_pc>>
       ELSE /\ cb_pc' = "invoking"
            /\ invoked' = 1
            /\ cb_result' = None
            /\ UNCHANGED <<state, cb_out>>
    /\ UNCHANGED <<failure_count, last_failure_time, failure_threshold, timeout,
                   clock, consecutive, ckVars, retryVars, restVars>>

\* A breaker that probes after the cooldown without leaving OPEN.
BreakerCall_ProbesWhileOpen ==
    /\ cb_pc = "idle"
    /\ entry_state' = state
    /\ func_result' = None
    /\ IF state = "OPEN"
       THEN IF clock - last_failure_time > timeout
            THEN /\ cb_pc' = "invoking"
                 /\ invoked' = 1
                 /\ cb_result' = None
                 /\ UNCHANGED <<state, cb_out>>
            ELSE /\ cb_out' = "blocked"
                 /\ cb_result' = CircuitOpen
                 /\ invoked' = 0
                 /\ UNCHANGED <<state, cb_pc>>
       ELSE /\ cb_pc' = "invoking"
            /\ invoked' = 1
            /\ cb_result' = None
            /\ UNCHANGED <<state, cb_out>>
    /\ UNCHANGED <<failure_count, last_failure_time, failure_threshold, timeout,
                   clock, consecutive, ckVars, retryVars, restVars>>

\* CircuitBreaker.call up to the invocation of func: the check of an OPEN breaker
BreakerCall ==
    /\ cb_pc = "idle"
    /\ entry_state' = state
    /\ func_result' = None
    /\ IF state = "OPEN"
       THEN IF clock - last_failure_time > timeout
            THEN /\ state' = "HALF_OPEN"
                 /\ cb_pc' = "invoking"
                 /\ invoked' = 1
                 /\ cb_result' = None
                 /\ UNCHANGED cb_out
            ELSE /\ cb_out' = "blocked"
                 /\ cb_result' = CircuitOpen
                 /\ invoked' = 0
                 /\ UNCHANGED <<state, cb_pc>>
       ELSE /\ cb_pc' = "invoking"
            /\ invoked' = 1
            /\ cb_result' = None
            /\ UNCHANGED <<state, cb_out>>
    /\ UNCHANGED <<failure_count, last_failure_time, failure_threshold, timeout,
                   clock, consecutive, ckVars, retryVars, restVars>>

\* A breaker that closes after a successful probe but keeps its counter.
BreakerFuncReturns_KeepsCount ==
    /\ cb_pc = "invoking"
    /\ \E r \in Results :
          /\ func_result' = r
          /\ cb_result' = r
    /\ IF state = "HALF_OPEN"
       THEN /\ state' = "CLOSED"
            /\ UNCHANGED failure_count
       ELSE UNCHANGED <<state, failure_count>>
    /\ cb_pc' = "idle"
    /\ cb_out' = "returned"
    /\ consecutive' = 0
    /\ UNCHANGED <<last_failure_time, failure_threshold, timeout, clock,
                   entry_state, invoked, ckVars, retryVars, restVars>>

\* A breaker that resets its counter after a successful probe but stays HALF_OPEN.
BreakerFuncReturns_StaysHalfOpen ==
    /\ cb_pc = "invoking"
    /\ \E r \in Results :
          /\ func_result' = r
          /\ cb_result' = r
    /\ IF state = "HALF_OPEN"
       THEN /\ failure_count' = 0
            /\ UNCHANGED state
       ELSE UNCHANGED <<state, failure_count>>
    /\ cb_pc' = "idle"
    /\ cb_out' = "returned"
    /\ consecutive' = 0
    /\ UNCHANGED <<last_failure_time, failure_threshold, timeout, clock,
                   entry_state, invoked, ckVars, retryVars, restVars>>

\* CircuitBreaker.call when func returns
BreakerFuncReturns ==
    /\ cb_pc = "invoking"
    /\ \E r \in Results :
          /\ func_result' = r
          /\ cb_result' = r
    /\ IF state = "HALF_OPEN"
       THEN /\ state' = "CLOSED"
            /\ failure_count' = 0
       ELSE UNCHANGED <<state, failure_count>>
    /\ cb_pc' = "idle"
    /\ cb_out' = "returned"
    /\ consecutive' = 0
    /\ UNCHANGED <<last_failure_time, failure_threshold, timeout, clock,
                   entry_state, invoked, ckVars, retryVars, restVars>>

\* A breaker that opens only once the counter exceeds the threshold.
BreakerFuncRaises_OpensLate ==
    /\ cb_pc = "invoking"
    /\ failure_count < MaxFailures
    /\ \E e \in Errors :
          /\ func_result' = e
          /\ cb_result' = e
    /\ failure_count' = failure_count + 1
    /\ last_failure_time' = clock
    /\ IF failure_count' > failure_threshold
       THEN state' = "OPEN"
       ELSE UNCHANGED state
    /\ cb_pc' = "idle"
    /\ cb_out' = "raised"
    /\ consecutive' = consecutive + 1
    /\ UNCHANGED <<failure_threshold, timeout, clock, entry_state, invoked,
                   ckVars, retryVars, restVars>>

\* A breaker that re-opens after a failed probe without restarting the cooldown.
BreakerFuncRaises_KeepsFailureTime ==
    /\ cb_pc = "invoking"
    /\ failure_count < MaxFailures
    /\ \E e \in Errors :
          /\ func_result' = e
          /\ cb_result' = e
    /\ failure_count' = failure_count + 1
    /\ last_failure_time' = IF state = "HALF_OPEN" THEN last_failure_time ELSE clock
    /\ IF failure_count' >= failure_threshold
       THEN state' = "OPEN"
       ELSE UNCHANGED state
    /\ cb_pc' = "idle"
    /\ cb_out' = "raised"
    /\ consecutive' = consecutive + 1
    /\ UNCHANGED <<failure_threshold, timeout, clock, entry_state, invoked,
                   ckVars, retryVars, restVars>>

\* CircuitBreaker.call when func raises: the except branch
BreakerFuncRaises ==
    /\ cb_pc = "invoking"
    /\ failure_count < MaxFailures
    /\ \E e \in Errors :
          /\ func_result' = e
          /\ cb_result' = e
    /\ failure_count' = failure_count + 1
    /\ last_failure_time' = clock
    /\ IF failure_count' >= failure_threshold
       THEN state' = "OPEN"
       ELSE UNCHANGED state
    /\ cb_pc' = "idle"
    /\ cb_out' = "raised"
    /\ consecutive' = consecutive + 1
    /\ UNCHANGED <<failure_threshold, timeout, clock, entry_state, invoked,
                   ckVars, retryVars, restVars>>

\* time.time() moves on
BreakerTick ==
    /\ clock < MaxClock
    /\ clock' = clock + 1
    /\ UNCHANGED <<state, failure_count, last_failure_time, failure_threshold,
                   timeout, cb_pc, cb_out, consecutive, entry_state, invoked,
                   func_result, cb_result, ckVars, retryVars, restVars>>

BreakerNext == BreakerCall \/ BreakerFuncReturns \/ BreakerFuncRaises \/ BreakerTick
\* ---------------------------------------------------------------------------
\* RobustLogger
\* ---------------------------------------------------------------------------
\* RobustLogger.__init__
LoggerInit ==
    /\ log_entry = None
    /\ pipeline_logs = <<>>
    /\ fallback_log = <<>>
    /\ critical_log = <<>>
    /\ stderr = <<>>
    /\ log_pc = "idle"
    /\ log_out = "none"
    /\ log_calls = 0
    /\ attempted = <<>>
    /\ written = <<>>

\* RobustLogger.log: the log_entry dict is built and the database sink is next
RobustLog ==
    /\ log_pc = "idle"
    /\ log_calls < MaxLogs
    /\ \E level \in Levels, message \in Messages, metadata \in LogMetadatas :
          log_entry' = [timestamp |-> utcnow, level |-> level, message |-> message,
                        pipeline_name |-> LoggerPipelineName, run_id |-> LoggerRunId,
                        metadata |-> metadata]
    /\ log_calls' = log_calls + 1
    /\ log_pc' = "database"
    /\ log_out' = "none"
    /\ attempted' = <<>>
    /\ written' = <<>>
    /\ UNCHANGED <<pipeline_logs, fallback_log, critical_log, stderr,
                   ckVars, retryVars, cbVars, connVars, recVars, runVars, sweepVars>>

\* The row _log_to_database inserts and commits
DatabaseRow(entry) ==
    [pipeline_name |-> entry.pipeline_name, run_id |-> entry.run_id,
     level |-> entry.level, message |-> entry.message,
     metadata |-> entry.metadata, timestamp |-> entry.timestamp]

\* The line _log_to_file appends: json.dumps(log_entry), a JSON object of the
\* six keys of the dict
FileLine(entry) == [text |-> "json", object |-> entry]

\* The line _log_to_critical_file appends:
\* f"{log_entry['timestamp']} - {log_entry['level']} - {simple_message}"
CriticalLine(entry, simple_message) ==
    [timestamp |-> entry.timestamp, level |-> entry.level, message |-> simple_message]

\* The line of the last resort: f"CRITICAL: {simple_message}"
StderrLine(simple_message) == [message |-> simple_message]

\* A log whose database branch lacks its return: the file sink is tried as well.
LogToDatabase_NoReturn ==
    /\ log_pc = "database"
    /\ attempted' = Append(attempted, "database")
    /\ \E ok \in BOOLEAN :
          IF ok
          THEN /\ pipeline_logs' = Append(pipeline_logs, DatabaseRow(log_entry))
               /\ written' = Append(written, "database")
          ELSE UNCHANGED <<pipeline_logs, written>>
    /\ log_pc' = "file"
    /\ UNCHANGED <<log_entry, fallback_log, critical_log, stderr, log_calls, log_out,
                   ckVars, retryVars, cbVars, connVars, recVars, runVars, sweepVars>>

\* RobustLogger._log_to_database: True after the commit, False on any exception
LogToDatabase ==
    /\ log_pc = "database"
    /\ attempted' = Append(attempted, "database")
    /\ \E ok \in BOOLEAN :
          IF ok
          THEN /\ pipeline_logs' = Append(pipeline_logs, DatabaseRow(log_entry))
               /\ written' = Append(written, "database")
               /\ log_pc' = "idle"
               /\ log_out' = "returned"
          ELSE /\ log_pc' = "file"
               /\ UNCHANGED <<pipeline_logs, written, log_out>>
    /\ UNCHANGED <<log_entry, fallback_log, critical_log, stderr, log_calls,
                   ckVars, retryVars, cbVars, connVars, recVars, runVars, sweepVars>>

\* RobustLogger._log_to_file: True after the write, False on any exception
LogToFile ==
    /\ log_pc = "file"
    /\ attempted' = Append(attempted, "file")
    /\ \E ok \in BOOLEAN :
          IF ok
          THEN /\ fallback_log' = Append(fallback_log, FileLine(log_entry))
               /\ written' = Append(written, "file")
               /\ log_pc' = "idle"
               /\ log_out' = "returned"
          ELSE /\ log_pc' = "critical"
               /\ UNCHANGED <<fallback_log, written, log_out>>
    /\ UNCHANGED <<log_entry, pipeline_logs, critical_log, stderr, log_calls,
                   ckVars, retryVars, cbVars, connVars, recVars, runVars, sweepVars>>

\* A critical sink without its except clause: the failure of the write leaves log.
LogToCriticalFile_NoLastResort ==
    /\ log_pc = "critical"
    /\ attempted' = Append(attempted, "critical")
    /\ \E ok \in BOOLEAN :
          IF ok
          THEN /\ critical_log' = Append(critical_log, CriticalLine(log_entry, log_entry.message))
               /\ written' = Append(written, "critical")
               /\ log_out' = "returned"
               /\ UNCHANGED stderr
          ELSE /\ log_out' = "raised"
               /\ UNCHANGED <<critical_log, stderr, written>>
    /\ log_pc' = "idle"
    /\ UNCHANGED <<log_entry, pipeline_logs, fallback_log, log_calls,
                   ckVars, retryVars, cbVars, connVars, recVars, runVars, sweepVars>>

\* RobustLogger._log_to_critical_file: the write, or the print to sys.stderr when
\* the write raises; log returns after either
LogToCriticalFile ==
    /\ log_pc = "critical"
    /\ attempted' = Append(attempted, "critical")
    /\ \E ok \in BOOLEAN :
          IF ok
          THEN /\ critical_log' = Append(critical_log, CriticalLine(log_entry, log_entry.message))
               /\ written' = Append(written, "critical")
               /\ UNCHANGED stderr
          ELSE /\ stderr' = Append(stderr, StderrLine(log_entry.message))
               /\ written' = Append(written, "stderr")
               /\ UNCHANGED critical_log
    /\ log_pc' = "idle"
    /\ log_out' = "returned"
    /\ UNCHANGED <<log_entry, pipeline_logs, fallback_log, log_calls,
                   ckVars, retryVars, cbVars, connVars, recVars, runVars, sweepVars>>

LoggerNext == RobustLog \/ LogToDatabase \/ LogToFile \/ LogToCriticalFile \/ Tick

\* ---------------------------------------------------------------------------
\* LogRecovery
\* ---------------------------------------------------------------------------
\* The lines a fallback file can hold: lines written by _log_to_file, a line that
\* is not JSON (a torn or overwritten write), and a blank line
WrittenLines ==
    {FileLine([timestamp |-> 0, level |-> level, message |-> message,
               pipeline_name |-> LoggerPipelineName, run_id |-> LoggerRunId,
               metadata |-> metadata]) :
        level \in {"INFO"}, message \in Messages, metadata \in LogMetadatas}

TornLine == [text |-> "{\"timestamp\": "]

BlankLine == [text |-> ""]

FileLines == WrittenLines \cup {TornLine, BlankLine}

\* The sequences over S of at most n elements
SeqsUpTo(S, n) == UNION {[1..k -> S] : k \in 0..n}

\* line.strip() is empty
IsBlank(line) == line.text = ""

\* json.loads(line) returns rather than raises
Parses(line) == line.text = "json"

\* json.loads(line)
JsonLoads(line) == line.object

\* LogRecovery.__init__, with the fallback file the logger has left behind
RecoveryInit ==
    /\ log_entry = None
    /\ pipeline_logs = <<>>
    /\ file_exists \in BOOLEAN
    /\ fallback_log \in IF file_exists THEN SeqsUpTo(FileLines, MaxLines) ELSE {<<>>}
    /\ critical_log = <<>>
    /\ stderr = <<>>
    /\ log_pc = "idle"
    /\ log_out = "none"
    /\ log_calls = 0
    /\ attempted = <<>>
    /\ written = <<>>
    /\ rec_pc = "idle"
    /\ rec_line = 0
    /\ recovered_count = 0
    /\ rec_pending = <<>>
    /\ rec_out = "none"
    /\ rec_runs = 0

\* No LogRecovery is in use.
RecoveryParked ==
    /\ rec_pc = "idle"
    /\ rec_line = 0
    /\ recovered_count = 0
    /\ rec_pending = <<>>
    /\ rec_out = "none"
    /\ rec_runs = 0
    /\ file_exists = TRUE

\* LogRecovery.recover_file_logs up to the loop: the early return for a missing file
RecoverStart ==
    /\ rec_pc = "idle"
    /\ rec_runs < MaxRecoveries
    /\ rec_runs' = rec_runs + 1
    /\ IF ~file_exists
       THEN /\ rec_out' = "no_file"
            /\ UNCHANGED <<rec_pc, rec_line, recovered_count>>
       ELSE /\ rec_pc' = "reading"
            /\ rec_line' = 1
            /\ recovered_count' = 0
            /\ rec_out' = "none"
    /\ UNCHANGED <<rec_pending, file_exists, ckVars, retryVars, cbVars, connVars, logVars, runVars, sweepVars>>

\* One pass of the loop of recover_file_logs: a blank line is passed over, a line
\* that parses is inserted, and the failure of json.loads leaves the loop for the
\* except clause of the method, before the commit
RecoverLine ==
    /\ rec_pc = "reading"
    /\ rec_line <= Len(fallback_log)
    /\ LET line == fallback_log[rec_line] IN
         IF IsBlank(line)
         THEN /\ rec_line' = rec_line + 1
              /\ UNCHANGED <<rec_pc, recovered_count, rec_pending, rec_out>>
         ELSE IF Parses(line)
         THEN /\ rec_pending' = Append(rec_pending, DatabaseRow(JsonLoads(line)))
              /\ recovered_count' = recovered_count + 1
              /\ rec_line' = rec_line + 1
              /\ UNCHANGED <<rec_pc, rec_out>>
         ELSE /\ rec_pc' = "idle"
              /\ rec_out' = "failed"
              /\ UNCHANGED <<rec_line, recovered_count, rec_pending>>
    /\ UNCHANGED <<rec_runs, file_exists, ckVars, retryVars, cbVars, connVars, logVars, runVars, sweepVars>>

\* A recovery that leaves out the rows the primary sink already holds.
RecoverCommit_SkipsKnown ==
    /\ rec_pc = "reading"
    /\ rec_line > Len(fallback_log)
    /\ pipeline_logs' = pipeline_logs \o
           SelectSeq(rec_pending,
                     LAMBDA row : \A i \in 1..Len(pipeline_logs) : pipeline_logs[i] # row)
    /\ rec_pending' = <<>>
    /\ rec_pc' = "idle"
    /\ rec_out' = "recovered"
    /\ UNCHANGED <<rec_line, recovered_count, rec_runs, file_exists, log_entry, fallback_log,
                   critical_log, stderr, log_pc, log_out, log_calls, attempted,
                   written, ckVars, retryVars, cbVars, connVars, runVars, sweepVars>>

\* The end of the file: self.conn.commit() and the report of recovered_count
RecoverCommit ==
    /\ rec_pc = "reading"
    /\ rec_line > Len(fallback_log)
    /\ pipeline_logs' = pipeline_logs \o rec_pending
    /\ rec_pending' = <<>>
    /\ rec_pc' = "idle"
    /\ rec_out' = "recovered"
    /\ UNCHANGED <<rec_line, recovered_count, rec_runs, file_exists, log_entry, fallback_log,
                   critical_log, stderr, log_pc, log_out, log_calls, attempted,
                   written, ckVars, retryVars, cbVars, connVars, runVars, sweepVars>>

\* conn.close(): the rows of a transaction that was never committed are gone
RecoverClose ==
    /\ rec_pc = "idle"
    /\ rec_pending # <<>>
    /\ rec_pending' = <<>>
    /\ UNCHANGED <<rec_pc, rec_line, recovered_count, rec_out, rec_runs, file_exists,
                   ckVars, retryVars, cbVars, connVars, logVars, runVars, sweepVars>>

RecoveryNext == RecoverStart \/ RecoverLine \/ RecoverCommit \/ RecoverClose

\* ---------------------------------------------------------------------------
\* ReliablePipeline
\* ---------------------------------------------------------------------------
\* ReliablePipeline.__init__
PipelineInit ==
    /\ run_pc = "idle"
    /\ stage_no = 0
    /\ stage_attempt = 0
    /\ op_invocations = [stage \in PipelineStageSet |-> 0]
    /\ op_failures = [stage \in PipelineStageSet |-> 0]
    /\ snapshot = [stage \in PipelineStageSet |-> {}]
    /\ run_out = "none"

\* The rows of the ledger that belong to a stage of the run
StageRows(table, stage) ==
    {r \in table : r.run_id = PipelineRun /\ r.stage = stage}

\* self.checkpoint.start_stage(stage, "start"), the first statement of a stage function
StageStarted(table, id, stage, current_time) ==
    InsertInProgress(table, id, PipelineRun, stage, "start", current_time)

\* self.checkpoint.set_checkpoint(stage, "end", "completed", metadata={"rows_updated": ...}):
\* "completed" is the third positional parameter, checkpoint_value; status keeps
\* its default "completed"
StageCompleted(table, id, stage, current_time) ==
    UpsertCheckpoint(table, id, PipelineRun, stage, "end", "completed", "completed",
                     RowsUpdated, current_time)

\* self.checkpoint.set_checkpoint(stage, "end", "failed"): "failed" is the third
\* positional parameter, checkpoint_value; status keeps its default "completed"
StageFailed(table, id, stage, current_time) ==
    UpsertCheckpoint(table, id, PipelineRun, stage, "end", "failed", "completed",
                     None, current_time)

\* run_pipeline up to the first stage: connect and the "Pipeline started" log
RunPipeline ==
    /\ run_pc = "idle"
    /\ run_pc' = "running"
    /\ stage_no' = 1
    /\ stage_attempt' = 0
    /\ UNCHANGED <<op_invocations, op_failures, snapshot, run_out, ckVars, retryVars,
                   cbVars, connVars, logVars, recVars, sweepVars>>

\* One attempt of a stage function whose statement succeeds: start_stage, execute,
\* commit, set_checkpoint, return; run_pipeline goes on to the next stage or ends
StageAttemptReturns ==
    /\ run_pc = "running"
    /\ LET stage == PipelineStages[stage_no]
           started == StageStarted(pipeline_checkpoint, next_id, stage, utcnow)
           done == StageCompleted(started, NextVal(next_id), stage, utcnow)
       IN  /\ pipeline_checkpoint' = done
           /\ next_id' = NextVal(NextVal(next_id))
           /\ op_invocations' = [op_invocations EXCEPT ![stage] = @ + 1]
           /\ snapshot' = [snapshot EXCEPT ![stage] = StageRows(done, stage)]
    /\ IF stage_no < Len(PipelineStages)
       THEN /\ stage_no' = stage_no + 1
            /\ stage_attempt' = 0
            /\ UNCHANGED <<run_pc, run_out>>
       ELSE /\ run_pc' = "ended"
            /\ run_out' = "returned"
            /\ UNCHANGED <<stage_no, stage_attempt>>
    /\ UNCHANGED <<op_failures, utcnow, db_conn, calls, last_call, sets, retryVars,
                   cbVars, connVars, logVars, recVars, sweepVars>>

\* One attempt of a stage function whose statement raises: start_stage, execute,
\* rollback, set_checkpoint, raise; the retry wrapper tries again while attempts
\* remain, and otherwise run_pipeline logs the failure, re-raises and disconnects
StageAttemptRaises ==
    /\ run_pc = "running"
    /\ LET stage == PipelineStages[stage_no]
           started == StageStarted(pipeline_checkpoint, next_id, stage, utcnow)
           failed == StageFailed(started, NextVal(next_id), stage, utcnow)
       IN  /\ pipeline_checkpoint' = failed
           /\ next_id' = NextVal(NextVal(next_id))
           /\ op_invocations' = [op_invocations EXCEPT ![stage] = @ + 1]
           /\ op_failures' = [op_failures EXCEPT ![stage] = @ + 1]
    /\ IF stage_attempt < max_attempts - 1
       THEN /\ stage_attempt' = stage_attempt + 1
            /\ UNCHANGED <<run_pc, run_out>>
       ELSE /\ run_pc' = "ended"
            /\ run_out' = "raised"
            /\ UNCHANGED stage_attempt
    /\ UNCHANGED <<stage_no, snapshot, utcnow, db_conn, calls, last_call, sets,
                   retryVars, cbVars, connVars, logVars, recVars, sweepVars>>

PipelineNext == RunPipeline \/ StageAttemptReturns \/ StageAttemptRaises \/ Tick

\* ---------------------------------------------------------------------------
\* idempotent_pipeline.py
\* ---------------------------------------------------------------------------
\* month_key = f"{year}-{month:02d}"
MonthKey(year, month) ==
    ToString(year) \o "-" \o (IF month < 10 THEN "0" ELSE "") \o ToString(month)

\* An ordering by month and then year.
MonthBefore_MonthFirst(a, b) ==
    a[2] < b[2] \/ (a[2] = b[2] /\ a[1] < b[1])

\* ORDER BY d.year, d.month
MonthBefore(a, b) ==
    a[1] < b[1] \/ (a[1] = b[1] /\ a[2] < b[2])

\* SELECT DISTINCT d.year, d.month ... ORDER BY d.year, d.month; cursor.fetchall()
RECURSIVE OrderBy(_)
OrderBy(months) ==
    IF months = {}
    THEN <<>>
    ELSE LET first == CHOOSE a \in months : \A b \in months \ {a} : MonthBefore(a, b)
         IN  <<first>> \o OrderBy(months \ {first})

\* get_distinct_months
get_distinct_months(silver) == OrderBy(silver)

\* CheckpointManager.get_processed_months: SELECT month_key FROM ops.processed_months
get_processed_months(table) == {r.month_key : r \in table}

\* INSERT INTO ops.processed_months ... ON CONFLICT (month_key) DO UPDATE SET status = ...
UpsertMonth(table, year, month, status) ==
    LET month_key == MonthKey(year, month)
        hit == {r \in table : r.month_key = month_key}
    IN  IF hit = {}
        THEN table \cup {[month_key |-> month_key, year |-> year, month |-> month,
                          status |-> status]}
        ELSE (table \ hit) \cup {[r EXCEPT !.status = status] : r \in hit}

\* main: the filter of all_months by --year and --month
FilterMonths(months, a) ==
    IF a.year # NoArg /\ a.month # NoArg
    THEN <<<<a.year, a.month>>>>
    ELSE IF a.year # NoArg
    THEN SelectSeq(months, LAMBDA m : m[1] = a.year)
    ELSE months

\* A work list that ignores the processed months.
Unprocessed_NoFilter(months, processed) == months

\* main: [m for m in all_months if f"{m[0]}-{m[1]:02d}" not in processed_months]
Unprocessed(months, processed) ==
    SelectSeq(months, LAMBDA m : MonthKey(m[1], m[2]) \notin processed)

\* The silver layer is loaded and no sweep has run yet.
SweepInit ==
    /\ silver_months \in SUBSET (SilverYears \X SilverMonths)
    /\ ops_processed_months = {}
    /\ args = [year |-> NoArg, month |-> NoArg, reset |-> FALSE, dry_run |-> FALSE]
    /\ processed_months = {}
    /\ all_months = <<>>
    /\ unprocessed_months = <<>>
    /\ sweep_pc = "idle"
    /\ todo = 0
    /\ month_attempt = 0
    /\ month_invocations = [m \in SilverYears \X SilverMonths |-> 0]
    /\ rows_at_start = {}
    /\ sweeps = 0
    /\ sweep_out = "none"

\* No sweep is in use; the silver layer holds the two months of the data set.
SweepParked ==
    /\ SweepInit
    /\ silver_months = {<<2010, 12>>, <<2011, 1>>}

\* main up to the loop: --reset, the two reads, the filter, the work list, the
\* returns for an empty work list and for --dry-run
Sweep ==
    /\ sweep_pc = "idle"
    /\ sweeps < MaxSweeps
    /\ sweeps' = sweeps + 1
    /\ \E y \in ArgYears, m \in ArgMonths, reset \in BOOLEAN, dry_run \in BOOLEAN :
          /\ args' = [year |-> y, month |-> m, reset |-> reset, dry_run |-> dry_run]
          /\ IF reset
             THEN /\ ops_processed_months' = {}
                  /\ sweep_out' = "reset"
                  /\ UNCHANGED <<processed_months, all_months, unprocessed_months,
                                 rows_at_start, sweep_pc, todo>>
             ELSE /\ processed_months' = get_processed_months(ops_processed_months)
                  /\ rows_at_start' = ops_processed_months
                  /\ all_months' = FilterMonths(get_distinct_months(silver_months), args')
                  /\ unprocessed_months' = Unprocessed(all_months', processed_months')
                  /\ UNCHANGED ops_processed_months
                  /\ IF unprocessed_months' = <<>>
                     THEN /\ sweep_out' = "nothing"
                          /\ UNCHANGED <<sweep_pc, todo>>
                     ELSE IF dry_run
                     THEN /\ sweep_out' = "dry_run"
                          /\ UNCHANGED <<sweep_pc, todo>>
                     ELSE /\ sweep_out' = "none"
                          /\ sweep_pc' = "in_progress"
                          /\ todo' = 1
    /\ UNCHANGED <<silver_months, month_attempt, month_invocations,
                   ckVars, retryVars, cbVars, connVars, logVars, recVars, runVars>>

\* checkpoint_mgr.set_month_processed(year, month, "in_progress")
MarkInProgress ==
    /\ sweep_pc = "in_progress"
    /\ LET m == unprocessed_months[todo]
       IN  ops_processed_months' = UpsertMonth(ops_processed_months, m[1], m[2], "in_progress")
    /\ sweep_pc' = "process"
    /\ month_attempt' = 0
    /\ UNCHANGED <<silver_months, args, processed_months, all_months, unprocessed_months,
                   todo, month_invocations, rows_at_start, sweeps, sweep_out,
                   ckVars, retryVars, cbVars, connVars, logVars, recVars, runVars>>

\* One attempt of process_month_gold that commits and returns
ProcessMonthReturns ==
    /\ sweep_pc = "process"
    /\ LET m == unprocessed_months[todo]
       IN  month_invocations' =
               IF m \in DOMAIN month_invocations
               THEN [month_invocations EXCEPT ![m] = @ + 1]
               ELSE month_invocations
    /\ sweep_pc' = "completed"
    /\ UNCHANGED <<silver_months, ops_processed_months, args, processed_months,
                   all_months, unprocessed_months, todo, month_attempt, rows_at_start,
                   sweeps, sweep_out,
                   ckVars, retryVars, cbVars, connVars, logVars, recVars, runVars>>

\* A loop that catches the failure of a month and goes on with the next one.
ProcessMonthRaises_SkipsUnit ==
    /\ sweep_pc = "process"
    /\ LET m == unprocessed_months[todo]
       IN  month_invocations' =
               IF m \in DOMAIN month_invocations
               THEN [month_invocations EXCEPT ![m] = @ + 1]
               ELSE month_invocations
    /\ IF month_attempt < max_attempts - 1
       THEN /\ month_attempt' = month_attempt + 1
            /\ UNCHANGED <<sweep_pc, sweep_out, todo>>
       ELSE IF todo < Len(unprocessed_months)
       THEN /\ todo' = todo + 1
            /\ sweep_pc' = "in_progress"
            /\ UNCHANGED <<month_attempt, sweep_out>>
       ELSE /\ sweep_pc' = "idle"
            /\ sweep_out' = "failed"
            /\ UNCHANGED <<month_attempt, todo>>
    /\ UNCHANGED <<silver_months, ops_processed_months, args, processed_months,
                   all_months, unprocessed_months, rows_at_start, sweeps,
                   ckVars, retryVars, cbVars, connVars, logVars, recVars, runVars>>

\* One attempt of process_month_gold that rolls back and raises: the retry wrapper
\* tries again while attempts remain; otherwise main logs "Pipeline failed" and
\* leaves through sys.exit(1)
ProcessMonthRaises ==
    /\ sweep_pc = "process"
    /\ LET m == unprocessed_months[todo]
       IN  month_invocations' =
               IF m \in DOMAIN month_invocations
               THEN [month_invocations EXCEPT ![m] = @ + 1]
               ELSE month_invocations
    /\ IF month_attempt < max_attempts - 1
       THEN /\ month_attempt' = month_attempt + 1
            /\ UNCHANGED <<sweep_pc, sweep_out>>
       ELSE /\ sweep_pc' = "idle"
            /\ sweep_out' = "failed"
            /\ UNCHANGED month_attempt
    /\ UNCHANGED <<silver_months, ops_processed_months, args, processed_months,
                   all_months, unprocessed_months, todo, rows_at_start, sweeps,
                   ckVars, retryVars, cbVars, connVars, logVars, recVars, runVars>>

\* checkpoint_mgr.set_month_processed(year, month, "completed"), then the next month
\* of the work list or the end of main
MarkCompleted ==
    /\ sweep_pc = "completed"
    /\ LET m == unprocessed_months[todo]
       IN  ops_processed_months' = UpsertMonth(ops_processed_months, m[1], m[2], "completed")
    /\ IF todo < Len(unprocessed_months)
       THEN /\ todo' = todo + 1
            /\ sweep_pc' = "in_progress"
            /\ UNCHANGED sweep_out
       ELSE /\ sweep_pc' = "idle"
            /\ sweep_out' = "completed"
            /\ UNCHANGED todo
    /\ UNCHANGED <<silver_months, args, processed_months, all_months, unprocessed_months,
                   month_attempt, month_invocations, rows_at_start, sweeps,
                   ckVars, retryVars, cbVars, connVars, logVars, recVars, runVars>>

SweepNext == Sweep \/ MarkInProgress \/ ProcessMonthReturns \/ ProcessMonthRaises \/ MarkCompleted

\* ---------------------------------------------------------------------------
\* ReliablePipeline on its one connection
\* ---------------------------------------------------------------------------
\* How an INSERT of _log_to_db can end: committed; json.dumps(metadata) raises
\* before the statement is sent; the server rejects the statement
LogOutcomes == {"committed", "not_serializable", "rejected"}

\* The log calls of a run, by the statement that follows each
AfterLog ==
    [log_connected |-> "log_started", log_started |-> "start_stage",
     log_completed |-> "disconnect_returning",
     log_pipeline_failed |-> "disconnect_raising"]

\* ReliablePipeline.connect: psycopg2.connect, and the one connection handed to
\* both PipelineLogger and CheckpointManager; the first log call is next
ConnInit ==
    /\ tx_status = "idle"
    /\ conn_pc = "log_connected"
    /\ conn_stage = 1
    /\ conn_attempt = 0
    /\ log_write_failed = FALSE
    /\ business_call = [op |-> "none", stage |-> None, outcome |-> None, alone |-> None]
    /\ conn_out = "none"

\* A statement sent on the connection: rejected with InFailedSqlTransaction while
\* the transaction of an earlier failed statement has not been rolled back
Aborted == tx_status = "inerror"

\* The retry wrapper after a stage function raised: the next attempt, or the except
\* and finally clauses of run_pipeline once the attempts are used up
AfterRaise ==
    IF conn_attempt < max_attempts - 1
    THEN /\ conn_attempt' = conn_attempt + 1
         /\ conn_pc' = "start_stage"
    ELSE /\ conn_pc' = "log_pipeline_failed"
         /\ UNCHANGED conn_attempt

\* PipelineLogger._log_to_db, called by info and error: INSERT and commit inside a
\* try whose except clause only warns; a rejected INSERT leaves the transaction of
\* the connection aborted, and an INSERT on an aborted transaction is rejected
LogToDb ==
    /\ conn_pc \in DOMAIN AfterLog \cup {"log_stage_done", "log_stage_failed"}
    /\ \E outcome \in LogOutcomes :
          IF Aborted
          THEN UNCHANGED <<tx_status, log_write_failed>>
          ELSE /\ tx_status' = IF outcome = "rejected" THEN "inerror" ELSE "idle"
               /\ log_write_failed' = (log_write_failed \/ outcome = "rejected")
    /\ IF conn_pc \in DOMAIN AfterLog
       THEN /\ conn_pc' = AfterLog[conn_pc]
            /\ UNCHANGED <<conn_stage, conn_attempt>>
       ELSE IF conn_pc = "log_stage_failed"
       THEN /\ AfterRaise
            /\ UNCHANGED conn_stage
       ELSE IF conn_stage < Len(PipelineStages)
       THEN /\ conn_stage' = conn_stage + 1
            /\ conn_attempt' = 0
            /\ conn_pc' = "start_stage"
       ELSE /\ conn_pc' = "log_completed"
            /\ UNCHANGED <<conn_stage, conn_attempt>>
    /\ UNCHANGED <<business_call, conn_out, ckVars, retryVars, cbVars, logVars, recVars,
                   runVars, sweepVars>>

\* self.checkpoint.start_stage(stage, "start"), the first statement of a stage
\* function, outside its try: an exception of the INSERT leaves the function
ConnStartStage ==
    /\ conn_pc = "start_stage"
    /\ LET stage == PipelineStages[conn_stage] IN
         IF Aborted
         THEN /\ business_call' = [op |-> "start_stage", stage |-> stage,
                                   outcome |-> "InFailedSqlTransaction", alone |-> "returned"]
              /\ AfterRaise
              /\ UNCHANGED <<pipeline_checkpoint, next_id, tx_status>>
         ELSE /\ business_call' = [op |-> "start_stage", stage |-> stage,
                                   outcome |-> "returned", alone |-> "returned"]
              /\ pipeline_checkpoint' = StageStarted(pipeline_checkpoint, next_id, stage, utcnow)
              /\ next_id' = NextVal(next_id)
              /\ tx_status' = "idle"
              /\ conn_pc' = "execute"
              /\ UNCHANGED conn_attempt
    /\ UNCHANGED <<conn_stage, log_write_failed, conn_out, utcnow, db_conn, calls,
                   last_call, sets, retryVars, cbVars, logVars, recVars, runVars, sweepVars>>

\* cursor.execute of the stage statement, on the transaction start_stage has just
\* committed: it returns and is committed, or it raises and the except branch rolls
\* back
ConnExecute ==
    /\ conn_pc = "execute"
    /\ \E outcome \in {"returned", "OperationalError"} :
          /\ business_call' = [op |-> "execute", stage |-> PipelineStages[conn_stage],
                               outcome |-> outcome, alone |-> outcome]
          /\ conn_pc' = IF outcome = "returned" THEN "set_completed" ELSE "set_failed"
    /\ tx_status' = "idle"
    /\ UNCHANGED <<conn_stage, conn_attempt, log_write_failed, conn_out, ckVars,
                   retryVars, cbVars, logVars, recVars, runVars, sweepVars>>

\* self.checkpoint.set_checkpoint(stage, "end", ...) of either branch of a stage
\* function, right after the commit or the rollback of the branch; the log call of
\* the branch is next
ConnSetCheckpoint ==
    /\ conn_pc \in {"set_completed", "set_failed"}
    /\ LET stage == PipelineStages[conn_stage]
       IN  /\ business_call' = [op |-> "set_checkpoint", stage |-> stage,
                                outcome |-> "returned", alone |-> "returned"]
           /\ pipeline_checkpoint' =
                  IF conn_pc = "set_completed"
                  THEN StageCompleted(pipeline_checkpoint, next_id, stage, utcnow)
                  ELSE StageFailed(pipeline_checkpoint, next_id, stage, utcnow)
    /\ next_id' = NextVal(next_id)
    /\ conn_pc' = IF conn_pc = "set_completed" THEN "log_stage_done" ELSE "log_stage_failed"
    /\ UNCHANGED <<tx_status, conn_stage, conn_attempt, log_write_failed, conn_out, utcnow,
                   db_conn, calls, last_call, sets, retryVars, cbVars, logVars, recVars,
                   runVars, sweepVars>>

\* The finally clause of run_pipeline: disconnect; run_pipeline returns, or
\* re-raises what its except clause caught
ConnDisconnect ==
    /\ conn_pc \in {"disconnect_returning", "disconnect_raising"}
    /\ conn_pc' = "ended"
    /\ conn_out' = IF conn_pc = "disconnect_returning" THEN "returned" ELSE "raised"
    /\ UNCHANGED <<tx_status, conn_stage, conn_attempt, log_write_failed, business_call,
                   ckVars, retryVars, cbVars, logVars, recVars, runVars, sweepVars>>

ConnNext == LogToDb \/ ConnStartStage \/ ConnExecute \/ ConnSetCheckpoint \/ ConnDisconnect \/ Tick

\* The components added after the breaker, before their first call
RestParked == LoggerInit /\ RecoveryParked /\ PipelineInit /\ SweepParked /\ ConnInit

\* ---------------------------------------------------------------------------
\* Specifications
\* ---------------------------------------------------------------------------
InitCheckpoint == CkInit /\ RetryParked /\ BreakerParked /\ RestParked

InitRetry == RetryInit /\ CkInit /\ BreakerParked /\ RestParked

InitBreaker == BreakerInit /\ CkInit /\ RetryParked /\ RestParked

InitLogger == LoggerInit /\ RecoveryParked /\ PipelineInit /\ SweepParked /\ CkInit /\ RetryParked /\ BreakerParked /\ ConnInit

InitRecovery == RecoveryInit /\ PipelineInit /\ SweepParked /\ CkInit /\ RetryParked /\ BreakerParked /\ ConnInit

InitPipeline == PipelineInit /\ CkInit /\ RetryParked /\ BreakerParked /\ LoggerInit /\ RecoveryParked /\ SweepParked /\ ConnInit

InitSweep == SweepInit /\ CkInit /\ RetryParked /\ BreakerParked /\ LoggerInit /\ RecoveryParked /\ PipelineInit /\ ConnInit

InitDetached == CkInitAnyConnection /\ RetryParked /\ BreakerParked /\ RestParked

InitConcurrent == CkInit /\ RestParked /\ RetryParked /\ BreakerParked

\* Managers with and without a connection, called in any order.
SpecDetached == InitDetached /\ [][CkNext]_vars

\* Two runs with distinct run ids whose managers share the ledger: the calls of the
\* two interleave in any order, each statement atomic.
SpecConcurrent == InitConcurrent /\ [][CkNext]_vars

InitConnection == ConnInit /\ CkInit /\ RetryParked /\ BreakerParked /\ LoggerInit /\ RecoveryParked /\ PipelineInit /\ SweepParked

\* One run of run_pipeline, statement by statement, on the connection its logger
\* and its checkpoint manager share.
SpecConnection == InitConnection /\ [][ConnNext]_vars

\* A RobustLogger whose sinks fail in any combination.
SpecLogger == InitLogger /\ [][LoggerNext]_vars

\* A LogRecovery run on any fallback file of at most MaxLines lines.
SpecRecovery == InitRecovery /\ [][RecoveryNext]_vars

\* One run of ReliablePipeline.run_pipeline whose statements succeed or raise.
SpecPipeline == InitPipeline /\ [][PipelineNext]_vars

\* Executions of main of idempotent_pipeline.py, one after the other.
SpecSweep == InitSweep /\ [][SweepNext]_vars

\* A CheckpointManager per run, called in any order.
SpecCheckpoint == InitCheckpoint /\ [][CkNext]_vars

\* Calls of a function decorated with retry_with_backoff.
SpecRetry == InitRetry /\ [][RetryNext]_vars

\* Calls through one CircuitBreaker.
SpecBreaker == InitBreaker /\ [][BreakerNext]_vars

\* ---------------------------------------------------------------------------
\* Properties of the CheckpointManager
\* ---------------------------------------------------------------------------
UnitOf(call) == <<call.run, call.stage, call.key>>

RowsOf(table, u) == Matching(table, u[1], u[2], u[3])

C2_LastWriterWins ==
    (last_call.op = "get_checkpoint" /\ Len(sets[UnitOf(last_call)]) >= 1)
        => last_call.ret = sets[UnitOf(last_call)][Len(sets[UnitOf(last_call)])]

\* get_checkpoint after two set_checkpoint calls with different values returned
\* the second value.
C2_Witness ==
    /\ last_call.op = "get_checkpoint"
    /\ Len(sets[UnitOf(last_call)]) = 2
    /\ sets[UnitOf(last_call)][1] # sets[UnitOf(last_call)][2]
    /\ last_call.ret = sets[UnitOf(last_call)][2]

\* C3: get_checkpoint leaves every ledger row unchanged, and for a unit without
\* a row in this run it returns None.
C3_GetIsPureRead ==
    [][ (last_call'.op = "get_checkpoint" /\ calls' = calls + 1) =>
            /\ pipeline_checkpoint' = pipeline_checkpoint
            /\ next_id' = next_id
            /\ (RowsOf(pipeline_checkpoint, UnitOf(last_call')) = {}
                    => last_call'.ret = None) ]_ckVars

\* get_checkpoint was called on a unit without a row while other units have
\* rows, and it returned None.
C3_Witness ==
    /\ last_call.op = "get_checkpoint"
    /\ RowsOf(pipeline_checkpoint, UnitOf(last_call)) = {}
    /\ pipeline_checkpoint # {}
    /\ last_call.ret = None

\* C4: start_stage on a unit without a row inserts one row with status
\* in_progress and the current time as start time and touches no other row;
\* start_stage on a unit that has a row leaves the whole ledger unchanged.
C4_StartStageFirstWriterWins ==
    [][ (last_call'.op = "start_stage" /\ calls' = calls + 1) =>
            LET u == UnitOf(last_call')
                old == RowsOf(pipeline_checkpoint, u)
                new == RowsOf(pipeline_checkpoint', u)
            IN  IF old = {}
                THEN /\ Cardinality(new) = 1
                     /\ \A r \in new : /\ r.status = "in_progress"
                                       /\ r.start_time = utcnow
                                       /\ r.start_time # NoTime
                     /\ pipeline_checkpoint' \ new = pipeline_checkpoint
                ELSE pipeline_checkpoint' = pipeline_checkpoint ]_ckVars

\* start_stage has just been called on a unit whose row set_checkpoint created
\* earlier (the row kept its status and start time), and another unit has the
\* in_progress row an earlier start_stage inserted.
C4_Witness ==
    /\ last_call.op = "start_stage"
    /\ \E r \in RowsOf(pipeline_checkpoint, UnitOf(last_call)) :
           /\ r.status \in Statuses
           /\ r.start_time < utcnow
    /\ \E r \in pipeline_checkpoint : r.status = "in_progress"

\* C5: no call changes the start time of an existing row; set_checkpoint on an
\* existing row overwrites value, status, end time, duration, metadata and
\* updated-at with those of the call and keeps the start time.
C5_StartTimePreserved ==
    [][ /\ \A r \in pipeline_checkpoint :
               \E r2 \in pipeline_checkpoint' :
                   r2.id = r.id /\ r2.start_time = r.start_time
        /\ (last_call'.op = "set_checkpoint" /\ calls' = calls + 1) =>
               LET u == UnitOf(last_call')
                   old == RowsOf(pipeline_checkpoint, u)
                   value == sets'[u][Len(sets'[u])]
               IN  \A r \in old :
                       \E r2 \in pipeline_checkpoint', how \in SetArgs :
                           /\ r2.id = r.id
                           /\ r2.start_time = r.start_time
                           /\ r2.checkpoint_value = value
                           /\ r2.status = how[1]
                           /\ r2.end_time = utcnow
                           /\ r2.updated_at = utcnow
                           /\ r2.duration_ms = DurationMs(how[2])
                           /\ r2.metadata = MetadataJson(how[2]) ]_ckVars

\* set_checkpoint has just overwritten a row that was started earlier: the row
\* ends later than it started.
C5_Witness ==
    /\ last_call.op = "set_checkpoint"
    /\ \E r \in RowsOf(pipeline_checkpoint, UnitOf(last_call)) :
           /\ r.start_time < r.end_time
           /\ r.end_time = utcnow
           /\ r.status \in Statuses

\* ---------------------------------------------------------------------------
\* Properties of retry_with_backoff
\* ---------------------------------------------------------------------------
RetryFinished == retry_pc \in {"returned", "raised"}

\* C6: when the function fails fail_first < max_attempts times and then
\* succeeds, it is never invoked more than fail_first + 1 times, and the
\* wrapper ends by returning the result of invocation fail_first + 1.
C6_ReturnsAfterFirstSuccess ==
    fail_first < max_attempts =>
        /\ invocations <= fail_first + 1
        /\ RetryFinished =>
               /\ retry_pc = "returned"
               /\ invocations = fail_first + 1
               /\ retry_out = Returned(fail_first + 1)

\* The function failed twice, succeeded on the third invocation, and the
\* wrapper returned that result.
C6_Witness ==
    /\ retry_pc = "returned"
    /\ fail_first = 2
    /\ invocations = 3
    /\ retry_out = Returned(3)

\* C7: when the function fails on every invocation, it is invoked at most
\* max_attempts times, and the wrapper ends by raising the exception of
\* invocation max_attempts, the last one.
C7_RaisesLastFailure ==
    fail_first >= max_attempts =>
        /\ invocations <= max_attempts
        /\ RetryFinished =>
               /\ retry_pc = "raised"
               /\ invocations = max_attempts
               /\ retry_out = Raised(max_attempts)
               /\ last_exception = max_attempts

\* Retries were exhausted with more than one attempt allowed.
C7_Witness ==
    /\ retry_pc = "raised"
    /\ max_attempts > 1
    /\ invocations = max_attempts
    /\ retry_out = Raised(max_attempts)

\* C8: the i-th sleep of a call (after the failure of attempt i - 1) is at
\* least base_delay * 2^(i-1) and less than one time unit more; a finished call
\* of m attempts has slept m - 1 times, and inside the loop every failed
\* attempt so far has been followed by a sleep.
C8_BackoffDelays ==
    /\ \A i \in 1..Len(slept) :
           /\ slept[i] >= base_delay * Pow2(i - 1)
           /\ slept[i] < base_delay * Pow2(i - 1) + TicksPerUnit
    /\ RetryFinished => Len(slept) = invocations - 1
    /\ retry_pc = "loop" => Len(slept) = invocations

\* A call of three attempts has slept twice, the second time at least twice
\* the base delay.
C8_Witness ==
    /\ RetryFinished
    /\ invocations = 3
    /\ Len(slept) = 2
    /\ slept[2] >= 2 * base_delay

\* ---------------------------------------------------------------------------
\* Properties of the CircuitBreaker
\* ---------------------------------------------------------------------------
FuncRaisedIn(s) == cb_pc = "invoking" /\ state = s /\ cb_pc' = "idle" /\ cb_out' = "raised"

FuncReturnedIn(s) == cb_pc = "invoking" /\ state = s /\ cb_pc' = "idle" /\ cb_out' = "returned"

\* C9: the breaker starts CLOSED with counter 0; a failed call while CLOSED
\* adds one to the counter, records the time of the failure and leaves the
\* breaker OPEN if the counter has reached failure_threshold and CLOSED
\* otherwise; a CLOSED breaker has a counter below the threshold, and after
\* failure_threshold consecutive failures the breaker is OPEN.
C9_OpensAtThreshold ==
    /\ (state = "CLOSED" /\ failure_count = 0)
    /\ [][ FuncRaisedIn("CLOSED") =>
               /\ failure_count' = failure_count + 1
               /\ last_failure_time' = clock
               /\ IF failure_count' >= failure_threshold
                  THEN state' = "OPEN"
                  ELSE state' = "CLOSED" ]_cbVars
    /\ [](state = "CLOSED" => failure_count < failure_threshold)
    /\ []((cb_pc = "idle" /\ consecutive >= failure_threshold) => state = "OPEN")

\* Two consecutive failures have opened a breaker of threshold 2.
C9_Witness ==
    /\ state = "OPEN"
    /\ failure_threshold = 2
    /\ failure_count = 2
    /\ consecutive = 2
    /\ cb_out = "raised"
    /\ last_failure_time = clock

\* C10: a successful call while CLOSED resets the failure counter to 0, and
\* the breaker opens from CLOSED only when failure_threshold failures have
\* occurred with no success between them.
C10_SuccessResetsCounter ==
    [][ /\ FuncReturnedIn("CLOSED") => failure_count' = 0
        /\ (state = "CLOSED" /\ state' = "OPEN") => consecutive' >= failure_threshold
      ]_cbVars

\* The cooldown of an OPEN breaker has elapsed: time.time() - last_failure_time > timeout
CooldownElapsed == clock - last_failure_time > timeout

\* C11: a call entered while the breaker is OPEN and the cooldown has not elapsed
\* fails with the circuit-open error, does not invoke the operation, consumes no
\* retry attempt, and leaves state, failure counter and failure time unchanged.
C11_BlockedWhileOpen ==
    [][ (cb_pc = "idle" /\ state = "OPEN" /\ ~CooldownElapsed /\ clock' = clock)
          => /\ cb_out' = "blocked"
             /\ cb_result' = CircuitOpen
             /\ cb_pc' = "idle"
             /\ invoked' = 0
             /\ func_result' = None
             /\ UNCHANGED <<state, failure_count, last_failure_time>>
             /\ UNCHANGED <<attempt, invocations>>
      ]_cbVars

\* A call was blocked exactly when the cooldown ran out: one tick after the failure
\* that opened the breaker, with timeout = 1.
C11_Witness ==
    /\ cb_pc = "idle"
    /\ state = "OPEN"
    /\ cb_out = "blocked"
    /\ cb_result = CircuitOpen
    /\ entry_state = "OPEN"
    /\ invoked = 0
    /\ clock - last_failure_time = timeout

\* C12: a call entered while the breaker is OPEN and the cooldown has elapsed first
\* moves the breaker to HALF_OPEN and then invokes the operation, exactly once in
\* that call.
C12_ProbeAfterCooldown ==
    /\ [][ (cb_pc = "idle" /\ state = "OPEN" /\ CooldownElapsed /\ clock' = clock)
             => /\ state' = "HALF_OPEN"
                /\ cb_pc' = "invoking"
                /\ invoked' = 1
         ]_cbVars
    /\ []((entry_state = "OPEN" /\ cb_pc = "invoking") => (state = "HALF_OPEN" /\ invoked = 1))
    /\ []((entry_state = "OPEN" /\ cb_pc = "idle" /\ cb_out # "blocked") => invoked = 1)
    /\ [][ (cb_pc = "invoking" /\ cb_pc' = "invoking") => invoked' = invoked ]_cbVars

\* The operation runs as the probe of a call that found the breaker OPEN.
C12_Witness ==
    /\ entry_state = "OPEN"
    /\ cb_pc = "invoking"
    /\ state = "HALF_OPEN"
    /\ invoked = 1
    /\ clock - last_failure_time > timeout

\* C13: when the trial call in HALF_OPEN succeeds, the call ends with the breaker
\* CLOSED and the failure counter 0, and returns the result of the operation.
C13_ProbeSuccessCloses ==
    [][ FuncReturnedIn("HALF_OPEN")
          => /\ state' = "CLOSED"
             /\ failure_count' = 0
             /\ func_result' \in Results
             /\ cb_result' = func_result'
      ]_cbVars

\* A probe returned result_b and closed a breaker that had counted failures.
C13_Witness ==
    /\ cb_pc = "idle"
    /\ entry_state = "OPEN"
    /\ cb_out = "returned"
    /\ cb_result = "result_b"
    /\ state = "CLOSED"
    /\ failure_count = 0
    /\ last_failure_time # NoTime

\* C14: when the trial call in HALF_OPEN fails, the call ends with the breaker OPEN
\* and the recorded failure time equal to the time of this failure, for every
\* failure_threshold >= 1 and every history that leads to HALF_OPEN; the failure of
\* the operation is re-raised to the caller.
C14_ProbeFailureReopens ==
    [][ FuncRaisedIn("HALF_OPEN")
          => /\ state' = "OPEN"
             /\ last_failure_time' = clock
             /\ failure_threshold >= 1
             /\ func_result' \in Errors
             /\ cb_result' = func_result'
      ]_cbVars

\* A failed probe re-opened a breaker of threshold 3 later than its first opening.
C14_Witness ==
    /\ cb_pc = "idle"
    /\ entry_state = "OPEN"
    /\ cb_out = "raised"
    /\ cb_result = "ConnectionError"
    /\ state = "OPEN"
    /\ failure_threshold = 3
    /\ failure_count = 4
    /\ last_failure_time = clock
    /\ clock >= 2

\* The sinks of RobustLogger have some call of log behind them that has ended.
LogEnded == log_pc = "idle" /\ log_calls > 0

IdentityKeys == {"timestamp", "level", "message", "pipeline_name", "run_id"}

\* C17: every record the logger emits, whichever sink receives it (database,
\* fallback file, critical file, last-resort backstop), carries timestamp, level,
\* message, pipeline identity and run identity.
C17_RecordsCarryIdentity ==
    /\ \A i \in 1..Len(pipeline_logs) : IdentityKeys \subseteq DOMAIN pipeline_logs[i]
    /\ \A i \in 1..Len(fallback_log) : IdentityKeys \subseteq DOMAIN fallback_log[i].object
    /\ \A i \in 1..Len(critical_log) : IdentityKeys \subseteq DOMAIN critical_log[i]
    /\ \A i \in 1..Len(stderr) : IdentityKeys \subseteq DOMAIN stderr[i]

\* The rows of the well-formed lines of a file, in the order of the file
WellFormedRows(file) ==
    LET good == SelectSeq(file, LAMBDA line : ~IsBlank(line) /\ Parses(line))
    IN  [i \in 1..Len(good) |-> DatabaseRow(JsonLoads(good[i]))]

\* C18: recovery re-submits every well-formed record of the fallback file to the
\* primary sink, for any mix of well-formed and malformed lines: a line that fails
\* to parse is skipped and does not keep the well-formed records before and after
\* it from being submitted and committed.
C18_RecoverySkipsMalformed ==
    (rec_pc = "idle" /\ rec_runs = 1 /\ file_exists)
        => /\ pipeline_logs = WellFormedRows(fallback_log)
           /\ recovered_count = Len(WellFormedRows(fallback_log))

\* The run has ended and stage number k is the one whose statement raised on every
\* attempt, every earlier stage having returned.
RunFailedAt(k) ==
    /\ run_pc = "ended"
    /\ stage_no = k
    /\ op_failures[PipelineStages[k]] = max_attempts

\* C19: in a run where the operation of stage k fails on every attempt while the
\* earlier stages succeed, the operation of stage k is invoked exactly max_attempts
\* times, the checkpoint of stage k ends as failed, the checkpoint of every earlier
\* stage is completed and not modified by the failure, no later stage is started or
\* has a checkpoint row, and the run reports failure.
C19_FailedStageHaltsRun ==
    \A k \in 1..Len(PipelineStages) :
        RunFailedAt(k) =>
            /\ op_invocations[PipelineStages[k]] = max_attempts
            /\ \E r \in StageRows(pipeline_checkpoint, PipelineStages[k]) :
                   r.status = "failed"
            /\ \A j \in 1..(k - 1) :
                   /\ \E r \in StageRows(pipeline_checkpoint, PipelineStages[j]) :
                          r.status = "completed"
                   /\ StageRows(pipeline_checkpoint, PipelineStages[j])
                          = snapshot[PipelineStages[j]]
            /\ \A j \in (k + 1)..Len(PipelineStages) :
                   /\ op_invocations[PipelineStages[j]] = 0
                   /\ StageRows(pipeline_checkpoint, PipelineStages[j]) = {}
            /\ run_out = "raised"

\* The elements of a sequence
Range(seq) == {seq[i] : i \in 1..Len(seq)}

\* The months that had a row in ops.processed_months when the sweep read the table
ProcessedUnits == {<<r.year, r.month>> : r \in rows_at_start}

\* C20: the work list of a sweep equals allUnits minus processedUnits (every unit of
\* the list is in allUnits and not processed, and no such unit is left out), in
\* ascending order by year and then month; allUnits = {2010-12, 2011-01} with
\* processed = {2010-12} gives exactly [2011-01].
C20_WorkListIsDifference ==
    /\ Range(unprocessed_months) = Range(all_months) \ ProcessedUnits
    /\ \A i, j \in 1..Len(unprocessed_months) :
           i < j => \/ unprocessed_months[i][1] < unprocessed_months[j][1]
                    \/ /\ unprocessed_months[i][1] = unprocessed_months[j][1]
                       /\ unprocessed_months[i][2] < unprocessed_months[j][2]
    /\ (Range(all_months) = {<<2010, 12>>, <<2011, 1>>} /\ ProcessedUnits = {<<2010, 12>>})
           => unprocessed_months = << <<2011, 1>> >>

\* A sweep over 2010-12 and 2011-01 found 2010-12 processed and listed 2011-01.
C20_Witness ==
    /\ sweeps = 2
    /\ Range(all_months) = {<<2010, 12>>, <<2011, 1>>}
    /\ ProcessedUnits = {<<2010, 12>>}
    /\ unprocessed_months = << <<2011, 1>> >>
    /\ sweep_pc = "in_progress"

\* ---------------------------------------------------------------------------
\* Properties of the sweeps of idempotent_pipeline.py
\* ---------------------------------------------------------------------------
\* The rows of ops.processed_months of a month
MonthRows(table, m) == {r \in table : r.year = m[1] /\ r.month = m[2]}

\* process_month_gold is executed for month m in this step
Invoked(m) == month_invocations'[m] > month_invocations[m]

\* C21: a sweep without --reset never invokes process_month_gold for a month whose
\* row has status completed when the sweep starts, and no month is processed again
\* while its row says completed.
C21_CompletedNotReprocessed ==
    [][ \A m \in DOMAIN month_invocations :
            Invoked(m) =>
                /\ ~args.reset
                /\ \A r \in MonthRows(rows_at_start, m) : r.status # "completed"
                /\ \A r \in MonthRows(ops_processed_months, m) : r.status # "completed"
      ]_sweepVars

\* The second sweep has processed a month while another month of all_months, which
\* the first sweep completed, stayed out of the work list and was not run again.
C21_Witness ==
    /\ sweeps = 2
    /\ ~args.reset
    /\ sweep_pc = "completed"
    /\ \E m \in Range(all_months) :
           /\ \E r \in MonthRows(rows_at_start, m) : r.status = "completed"
           /\ m \notin Range(unprocessed_months)
           /\ month_invocations[m] = 1

\* C27: a month whose row is in_progress or failed when a default sweep starts is
\* in the work list of that sweep (only completed months count as processed).
C27_UnfinishedUnitsRetried ==
    \A m \in Range(all_months) :
        (\E r \in MonthRows(rows_at_start, m) : r.status # "completed")
            => m \in Range(unprocessed_months)

\* C28: in a sweep, the row of a month is in_progress when process_month_gold is
\* invoked for it and becomes completed only after process_month_gold has returned;
\* when the retries of a month are exhausted the sweep stops, the row of that month
\* stays in_progress, and no later month of the work list is invoked or given a row.
C28_SweepOrderAndHalt ==
    /\ [][ \A m \in DOMAIN month_invocations :
               Invoked(m) =>
                   /\ m = unprocessed_months[todo]
                   /\ \E r \in MonthRows(ops_processed_months, m) : r.status = "in_progress"
         ]_sweepVars
    /\ [][ \A m \in DOMAIN month_invocations :
               ( /\ \E r \in MonthRows(ops_processed_months', m) : r.status = "completed"
                 /\ ~\E r \in MonthRows(ops_processed_months, m) : r.status = "completed" )
               => /\ sweep_pc = "completed"
                  /\ m = unprocessed_months[todo]
                  /\ month_invocations[m] >= 1
         ]_sweepVars
    /\ [][ \A m \in DOMAIN month_invocations :
               (Invoked(m) \/ (MonthRows(ops_processed_months', m) # {}
                                  /\ MonthRows(ops_processed_months, m) = {}))
               => /\ m = unprocessed_months[todo]
                  /\ \A i \in 1..(todo - 1) :
                         \E r \in MonthRows(ops_processed_months, unprocessed_months[i]) :
                             r.status = "completed"
         ]_sweepVars
    /\ [][ (sweep_out' = "failed" /\ sweep_out # "failed")
               => /\ sweep_pc = "process"
                  /\ sweep_pc' = "idle"
                  /\ month_attempt = max_attempts - 1
                  /\ UNCHANGED <<ops_processed_months, todo>>
         ]_sweepVars
    /\ []((sweep_pc = "idle" /\ sweep_out = "failed") =>
            /\ \E r \in MonthRows(ops_processed_months, unprocessed_months[todo]) :
                   r.status = "in_progress"
            /\ \A j \in (todo + 1)..Len(unprocessed_months) :
                   MonthRows(ops_processed_months, unprocessed_months[j]) = {})
    /\ [][ sweep_pc = "idle" => sweeps' = sweeps + 1 ]_sweepVars

\* The first month of a work list of two has exhausted its retries: its row is
\* in_progress and the second month has neither a row nor an invocation.
C28_Witness ==
    /\ sweep_pc = "idle"
    /\ sweep_out = "failed"
    /\ Len(unprocessed_months) = 2
    /\ todo = 1
    /\ month_invocations[unprocessed_months[1]] = max_attempts
    /\ month_invocations[unprocessed_months[2]] = 0
    /\ \E r \in MonthRows(ops_processed_months, unprocessed_months[1]) : r.status = "in_progress"
    /\ MonthRows(ops_processed_months, unprocessed_months[2]) = {}

\* ---------------------------------------------------------------------------
\* Invariants of the CircuitBreaker
\* ---------------------------------------------------------------------------
\* C29: in every state reachable from (CLOSED, 0) with failure_threshold >= 1 the
\* state is CLOSED, OPEN or HALF_OPEN; an OPEN breaker has a failure counter of at
\* least failure_threshold and a recorded failure time, so the cooldown comparison
\* is defined; and no call leaves the breaker HALF_OPEN when it returns or raises.
C29_BreakerInvariants ==
    /\ failure_threshold >= 1
    /\ state \in {"CLOSED", "OPEN", "HALF_OPEN"}
    /\ state = "OPEN" =>
           /\ failure_count >= failure_threshold
           /\ last_failure_time # NoTime
           /\ last_failure_time \in 0..clock
    /\ cb_pc = "idle" => state # "HALF_OPEN"

\* A breaker of threshold 1 was opened, probed after its cooldown, and opened again
\* by the failure of the probe.
C29_Witness ==
    /\ cb_pc = "idle"
    /\ failure_threshold = 1
    /\ entry_state = "OPEN"
    /\ cb_out = "raised"
    /\ state = "OPEN"
    /\ failure_count = 2

\* ---------------------------------------------------------------------------
\* Repeated recovery
\* ---------------------------------------------------------------------------
\* n copies of a sequence, one after the other
RECURSIVE Repeat(_, _)
Repeat(seq, n) == IF n = 0 THEN <<>> ELSE Repeat(seq, n - 1) \o seq

\* Every line of the file is blank or parses
AllLinesParse(file) == \A i \in 1..Len(file) : IsBlank(file[i]) \/ Parses(file[i])

\* C30: recover_file_logs never modifies the fallback file and does not look at
\* what the primary sink already holds: when every line parses, each call adds one
\* row per non-blank line, so n calls on the same file leave n copies of each record.
C30_RecoveryDuplicates ==
    /\ [][ fallback_log' = fallback_log /\ file_exists' = file_exists ]_vars
    /\ []((rec_pc = "idle" /\ file_exists /\ AllLinesParse(fallback_log)) =>
            /\ pipeline_logs = Repeat(WellFormedRows(fallback_log), rec_runs)
            /\ rec_runs > 0 =>
                   recovered_count =
                       Len(SelectSeq(fallback_log, LAMBDA line : ~IsBlank(line))))

\* Two recoveries of a file of two records and a blank line have left each record
\* twice in ops.pipeline_logs.
C30_Witness ==
    /\ rec_pc = "idle"
    /\ rec_runs = 2
    /\ file_exists
    /\ AllLinesParse(fallback_log)
    /\ \E i \in 1..Len(fallback_log) : IsBlank(fallback_log[i])
    /\ Len(WellFormedRows(fallback_log)) = 2
    /\ Len(pipeline_logs) = 4
    /\ pipeline_logs = WellFormedRows(fallback_log) \o WellFormedRows(fallback_log)

\* ---------------------------------------------------------------------------
\* The status of the stages of a run of ReliablePipeline
\* ---------------------------------------------------------------------------
\* The rows of a stage of the run whose status is completed or failed
TerminalRows(table, stage) == {r \in StageRows(table, stage) : r.status \in Statuses}

\* The retry wrapper around the current stage ends in this step: run_pipeline goes
\* on to the next stage or ends
RetryLogicEnds == stage_no' # stage_no \/ (run_pc = "running" /\ run_pc' = "ended")

\* C25: once a run has ended, with success or with the failure of a stage, no
\* checkpoint row of the run has status in_progress: every row start_stage created
\* has moved to completed or failed.
C25_NoInProgressAfterRun ==
    run_pc = "ended" =>
        \A r \in pipeline_checkpoint : r.run_id = PipelineRun => r.status # "in_progress"

\* C26: within a run the status of a stage moves not-started -> in_progress ->
\* completed or failed: the terminal status is written once, in the step that ends
\* the retry logic of the stage, and a stage that has a completed or failed row is
\* not executed again and keeps its rows as they are.
C26_TerminalStatusWrittenOnce ==
    [][ \A stage \in PipelineStageSet :
            LET old == TerminalRows(pipeline_checkpoint, stage)
                new == TerminalRows(pipeline_checkpoint', stage)
            IN  /\ (old = {} /\ new # {}) => RetryLogicEnds
                /\ old # {} =>
                       /\ op_invocations'[stage] = op_invocations[stage]
                       /\ \A r \in old :
                              \E r2 \in new : /\ r2.id = r.id
                                              /\ r2.status = r.status
                                              /\ r2.checkpoint_value = r.checkpoint_value
      ]_vars

\* ---------------------------------------------------------------------------
\* The ledger without a connection, and under concurrent runs
\* ---------------------------------------------------------------------------
\* A call of the manager returns in this step
CallReturns(op) == calls' = calls + 1 /\ last_call'.op = op

\* C23: set_checkpoint and start_stage return normally only if their write has been
\* applied to the ledger (the unit has a row afterwards, with the value set), and
\* get_checkpoint on a unit without a row returns None rather than an error.
C23_ReturnMeansWritten ==
    [][ /\ CallReturns("set_checkpoint") =>
               \E r \in RowsOf(pipeline_checkpoint', UnitOf(last_call')) :
                   r.checkpoint_value =
                       sets'[UnitOf(last_call')][Len(sets'[UnitOf(last_call')])]
        /\ CallReturns("start_stage") =>
               RowsOf(pipeline_checkpoint', UnitOf(last_call')) # {}
        /\ (CallReturns("get_checkpoint")
              /\ RowsOf(pipeline_checkpoint, UnitOf(last_call')) = {}) =>
               last_call'.ret = None
      ]_ckVars

\* The rows of the ledger that belong to a run
RunRows(table, run) == {r \in table : r.run_id = run}

\* C24: under every interleaving of the calls of two runs with distinct run ids,
\* each statement atomic, the ledger has at most one row per (pipeline name, run id,
\* stage, checkpoint key), and each call reads and changes only the rows of its own
\* run: the rows of the other run stay as they are, and the rows of the calling run
\* and the value returned are what the same call gives on the rows of that run
\* alone.
C24_RunsIsolated ==
    /\ [](\A r1, r2 \in pipeline_checkpoint :
             ( /\ r1.pipeline_name = r2.pipeline_name
               /\ r1.run_id = r2.run_id
               /\ r1.stage = r2.stage
               /\ r1.checkpoint_key = r2.checkpoint_key ) => r1.id = r2.id /\ r1 = r2)
    /\ [][ calls' = calls + 1 =>
               LET c == last_call'
                   mine == RunRows(pipeline_checkpoint, c.run)
                   alone == Matching(mine, c.run, c.stage, c.key)
               IN  /\ \A other \in Runs \ {c.run} :
                          RunRows(pipeline_checkpoint', other)
                              = RunRows(pipeline_checkpoint, other)
                   /\ c.op = "get_checkpoint" =>
                          /\ RunRows(pipeline_checkpoint', c.run) = mine
                          /\ IF alone = {}
                             THEN c.ret = None
                             ELSE \E r \in alone : c.ret = r.checkpoint_value
                   /\ c.op = "start_stage" =>
                          RunRows(pipeline_checkpoint', c.run)
                              = InsertInProgress(mine, next_id, c.run, c.stage, c.key, utcnow)
                   /\ c.op = "set_checkpoint" =>
                          \E how \in SetArgs :
                              RunRows(pipeline_checkpoint', c.run)
                                  = UpsertCheckpoint(mine, next_id, c.run, c.stage, c.key,
                                        sets'[UnitOf(c)][Len(sets'[UnitOf(c)])],
                                        how[1], how[2], utcnow)
         ]_ckVars

\* run1 has set a unit, run2 has set the unit of the same stage and key, and run1
\* has set its unit again: each run has one row, with its own last value.
C24_Witness ==
    \E stage \in Stages, key \in Keys :
        LET u1 == <<"run1", stage, key>>
            u2 == <<"run2", stage, key>>
        IN  /\ Len(sets[u1]) = 2
            /\ Len(sets[u2]) = 1
            /\ sets[u1][2] # sets[u2][1]
            /\ last_call.op = "set_checkpoint"
            /\ last_call.run = "run1"
            /\ \E r1 \in RowsOf(pipeline_checkpoint, u1), r2 \in RowsOf(pipeline_checkpoint, u2) :
                   /\ r1.id = 1
                   /\ r2.id = 2
                   /\ r1.checkpoint_value = sets[u1][2]
                   /\ r2.checkpoint_value = sets[u2][1]

\* ---------------------------------------------------------------------------
\* Logging failures and the business statements of a run
\* ---------------------------------------------------------------------------
\* C22: after a log call whose INSERT failed on the connection shared by
\* PipelineLogger and CheckpointManager, every start_stage, stage statement and
\* set_checkpoint of the run ends as it would have ended had the log write
\* succeeded.
C22_LogFailureContained ==
    log_write_failed => business_call.outcome = business_call.alone
====
